---- MODULE Spec2Model ----
(***************************************************************************)
(* Model of jh_jwt: the JSON Web Token login handler of a JupyterHub       *)
(* authenticator (src/jh_jwt/jh_jwt.py).  One behaviour is one request     *)
(* handled by JSONWebTokenLoginHandler.get under one authenticator         *)
(* configuration.  Text that the code takes apart (the header, the         *)
(* username claim) is a sequence of one-character strings.                 *)
(***************************************************************************)
EXTENDS Integers, Sequences, FiniteSets, TLC

VARIABLES
    authenticator,        \* the configured traits of JSONWebTokenAuthenticator
    pc,                   \* position of the handler inside get()
    auth_header_content,  \* local of get(): value of the configured header
    auth_cookie_content,  \* local of get(): value of the XSRF-TOKEN cookie
    tokenParam,           \* local of get(): the query argument, or False
    token,                \* local of get(): the located raw token
    claims,               \* local of get(): the decoded claim set
    username,             \* local of get(): result of retrieve_username
    verifier,             \* which verify_jwt_* function get() called
    certificate_read,     \* the signing certificate file has been opened
    login_cookie,         \* the login session cookie of the response
    redirect,             \* the redirect target issued, "" when none
    exc,                  \* class of the exception that ended get()
    status,               \* HTTP status the request ended with, 0 while running
    failed_at,            \* the step of get() that raised
    failed_claim          \* the claim named by the raised HTTPError

vars == <<authenticator, pc, auth_header_content, auth_cookie_content, tokenParam,
          token, claims, username, verifier, certificate_read, login_cookie,
          redirect, exc, status, failed_at, failed_claim>>

-----------------------------------------------------------------------------
(* Bounds *)

\* total number of entries in boolean_claims and boolean_negative_claims
MaxClaims == 2
\* longest username claim value of the username specification
MaxLen == 3

-----------------------------------------------------------------------------
(* Python values *)

PyStr(s) == [t |-> "str", v |-> s]
PyBool(b) == [t |-> "bool", v |-> b]
PyInt(n) == [t |-> "int", v |-> n]

\* Python truth value of a str, bool or int
Truthy(x) ==
    CASE x.t = "str" -> Len(x.v) > 0
      [] x.t = "bool" -> x.v
      [] x.t = "int" -> x.v # 0

\* dict.get(key, default)
Get(d, key, default) == IF key \in DOMAIN d THEN d[key] ELSE default

EmptyDict == [k \in {} |-> PyBool(FALSE)]

\* the entries of a list
Range(list) == { list[i] : i \in 1..Len(list) }

Whitespace == {" ", "\t"}

\* str.split() with no separator: the maximal runs of non-whitespace characters
RECURSIVE SplitFrom(_, _, _, _)
SplitFrom(s, i, word, words) ==
    IF i > Len(s)
    THEN IF word = <<>> THEN words ELSE Append(words, word)
    ELSE IF s[i] \in Whitespace
         THEN SplitFrom(s, i + 1, <<>>,
                        IF word = <<>> THEN words ELSE Append(words, word))
         ELSE SplitFrom(s, i + 1, Append(word, s[i]), words)

Split(s) == SplitFrom(s, 1, <<>>, <<>>)

\* str.replace(ch, "")
RECURSIVE Remove(_, _)
Remove(s, ch) ==
    IF s = <<>> THEN <<>>
    ELSE IF Head(s) = ch THEN Remove(Tail(s), ch)
         ELSE <<Head(s)>> \o Remove(Tail(s), ch)

\* ch in s
Contains(s, ch) == \E i \in 1..Len(s) : s[i] = ch

\* s.split(ch)[0]: the text before the first ch, all of s when there is none
RECURSIVE SplitFirst(_, _)
SplitFirst(s, ch) ==
    IF s = <<>> THEN <<>>
    ELSE IF Head(s) = ch THEN <<>>
         ELSE <<Head(s)>> \o SplitFirst(Tail(s), ch)

-----------------------------------------------------------------------------
(* Configuration and inputs *)

Bearer == <<"b", "e", "a", "r", "e", "r">>

ClaimNames == {"jupyterhub_access", "restricted"}

RECURSIVE SeqsUpTo(_, _)
SeqsUpTo(S, n) ==
    IF n = 0 THEN {<<>>}
    ELSE LET shorter == SeqsUpTo(S, n - 1)
         IN  shorter \cup {Append(q, x) : q \in shorter, x \in S}

\* the traits of JSONWebTokenAuthenticator; a trait left unset is ""
AllAuthenticators ==
    { [signing_certificate |-> cert,
       username_claim_field |-> "upn",
       post_login_url |-> "home",
       expected_audience |-> aud,
       header_name |-> "Authorization",
       param_name |-> "access_token",
       secret |-> sec,
       boolean_claims |-> bc,
       boolean_negative_claims |-> bnc,
       logout_on_new_token |-> lo] :
         cert \in {"", "/etc/cert.pem"}, aud \in {"", "hub"},
         sec \in {"", "s3cr3t"}, lo \in BOOLEAN,
         bc \in SeqsUpTo(ClaimNames, MaxClaims),
         bnc \in SeqsUpTo(ClaimNames, MaxClaims) }

Authenticators ==
    { a \in AllAuthenticators :
        Len(a.boolean_claims) + Len(a.boolean_negative_claims) <= MaxClaims }

\* header values as the HTTP layer delivers them (surrounding whitespace removed)
Headers ==
    { <<>>,
      Bearer \o <<" ", "h">>,
      Bearer \o <<" ", " ", "h", "\t", "x">>,
      Bearer,
      <<"B", "e", "a", "r", "e", "r", " ", "h">>,
      <<"t", "o", "k", "e", "n", " ", "h">>,
      Bearer \o <<"h">> }

Cookies == { <<>>, <<"c">> }

\* get_argument(param_name, default=False)
Arguments == { PyBool(FALSE), PyStr(<<>>), PyStr(<<"p">>) }

\* values of the username claim in a token
UpnValues == { PyStr(<<"a", "-", "b">>), PyStr(<<"a", "@", "b">>), PyInt(7) }

ClaimValues == { PyBool(TRUE), PyBool(FALSE) }

\* claim sets a token can carry
Payloads ==
    UNION { { f \in [D -> ClaimValues \cup UpnValues] :
                \A k \in D : IF k = "upn" THEN f[k] \in UpnValues
                                          ELSE f[k] \in ClaimValues } :
            D \in SUBSET (ClaimNames \cup {"upn"}) }

\* what a presented token is: the key its signature verifies under ("none" for
\* an expired, malformed or wrongly signed token), its audience, its claim set
JWTs ==
    [key : {"s3cr3t", "/etc/cert.pem", "none"}, aud : {"hub", "other"},
     payload : Payloads]

-----------------------------------------------------------------------------
(* The JWT library, as get() uses it *)

Decoded(payload) == [ok |-> TRUE, exc |-> "none", claims |-> payload]
DecodeError(e) == [ok |-> FALSE, exc |-> e, claims |-> EmptyDict]

\* jwt.decode(json_web_token, secret, algorithms=...): no audience is passed
verify_jwt_using_secret(jwt, secret) ==
    IF jwt.key = secret THEN Decoded(jwt.payload) ELSE DecodeError("JWTError")

\* jwt.decode(token, <certificate text>, audience=audience, options=opts)
verify_jwt_with_claims(jwt, signing_certificate, audience) ==
    LET opts == [verify_aud |-> (audience # "")]
    IN  IF jwt.key # signing_certificate THEN DecodeError("JWTError")
        ELSE IF opts.verify_aud /\ jwt.aud # audience
             THEN DecodeError("JWTClaimsError")
             ELSE Decoded(jwt.payload)

\* retrieve_username(claims, username_claim_field), for a claim that is a str
retrieve_username_SplitUnstripped(claim) ==
    IF Contains(claim, "@") THEN SplitFirst(claim, "@") ELSE Remove(claim, "-")

retrieve_username(claim) ==
    LET stripped == Remove(claim, "-")
    IN  IF Contains(stripped, "@") THEN SplitFirst(stripped, "@") ELSE stripped

-----------------------------------------------------------------------------
(* The handler *)

Init ==
    /\ authenticator \in Authenticators
    /\ pc = "get"
    /\ auth_header_content = <<>>
    /\ auth_cookie_content = <<>>
    /\ tokenParam = PyBool(FALSE)
    /\ token = <<>>
    /\ claims = EmptyDict
    /\ username = <<>>
    /\ verifier = "none"
    /\ certificate_read = FALSE
    /\ login_cookie = "existing"
    /\ redirect = ""
    /\ exc = "none"
    /\ status = 0
    /\ failed_at = "none"
    /\ failed_claim = "none"

\* raise web.HTTPError(code) out of get(): the request ends with that status
RaiseHTTP(code, step) ==
    /\ pc' = "failed"
    /\ exc' = "HTTPError"
    /\ status' = code
    /\ failed_at' = step

\* any other exception leaves get() uncaught: the server answers 500
RaiseUncaught(e, step) ==
    /\ pc' = "failed"
    /\ exc' = e
    /\ status' = 500
    /\ failed_at' = step

\* line 28: the header and the query argument are both given
BothPresent_WellFormedOnly(h, p) ==
    Truthy(PyStr(h)) /\ Truthy(p) /\ Split(h)[1] = Bearer

BothPresent(h, p) == Truthy(PyStr(h)) /\ Truthy(p)

\* lines 28-41: the branch of the if/elif chain the request takes
Source_ParamBeforeCookie(h, c, p) ==
    IF BothPresent(h, p) THEN "ambiguous"
    ELSE IF Truthy(PyStr(h)) THEN "header"
    ELSE IF Truthy(p) THEN "param"
    ELSE IF Truthy(PyStr(c)) THEN "cookie"
    ELSE "none"

Source(h, c, p) ==
    IF BothPresent(h, p) THEN "ambiguous"
    ELSE IF Truthy(PyStr(h)) THEN "header"
    ELSE IF Truthy(PyStr(c)) THEN "cookie"
    ELSE IF Truthy(p) THEN "param"
    ELSE "none"

\* line 33: the first word of the header is the bearer scheme
SchemeOk_NotToken(words) == words[1] # <<"t", "o", "k", "e", "n">>

SchemeOk(words) == words[1] = Bearer

\* get(), lines 17-41: read the request and locate the token
Locate ==
    /\ pc = "get"
    /\ \E h \in Headers, c \in Cookies, p \in Arguments :
         /\ auth_header_content' = h
         /\ auth_cookie_content' = c
         /\ tokenParam' = p
         /\ LET source == Source(h, c, p)
                words == Split(h)
            IN  CASE source = "ambiguous" ->
                       RaiseHTTP(400, "locate") /\ UNCHANGED token
                  [] source = "header" ->
                       IF Len(words) < 1
                       THEN RaiseUncaught("IndexError", "locate") /\ UNCHANGED token
                       ELSE IF ~SchemeOk(words)
                       THEN RaiseHTTP(403, "locate") /\ UNCHANGED token
                       ELSE IF Len(words) < 2
                       THEN RaiseUncaught("IndexError", "locate") /\ UNCHANGED token
                       ELSE /\ token' = words[2]
                            /\ pc' = "logout"
                            /\ UNCHANGED <<exc, status, failed_at>>
                  [] source = "cookie" ->
                       /\ token' = c
                       /\ pc' = "logout"
                       /\ UNCHANGED <<exc, status, failed_at>>
                  [] source = "param" ->
                       /\ token' = p.v
                       /\ pc' = "logout"
                       /\ UNCHANGED <<exc, status, failed_at>>
                  [] source = "none" ->
                       RaiseHTTP(401, "locate") /\ UNCHANGED token
    /\ UNCHANGED <<authenticator, claims, username, verifier, certificate_read,
                   login_cookie, redirect, failed_claim>>

\* line 43: the condition under which the login cookie is cleared
ClearsSession_Always(tok, a) == Truthy(PyStr(tok))

ClearsSession(tok, a) == Truthy(PyStr(tok)) /\ a.logout_on_new_token

\* get(), lines 43-44: clear the login cookie before applying a new token
ClearLoginCookie ==
    /\ pc = "logout"
    /\ login_cookie' = IF ClearsSession(token, authenticator)
                       THEN "cleared" ELSE login_cookie
    /\ pc' = "verify"
    /\ UNCHANGED <<authenticator, auth_header_content, auth_cookie_content,
                   tokenParam, token, claims, username, verifier,
                   certificate_read, redirect, exc, status, failed_at,
                   failed_claim>>

\* lines 47-52: the verification function get() calls
Verifier_CertificateFirst(a) ==
    IF a.signing_certificate # "" THEN "verify_jwt_with_claims"
    ELSE IF a.secret # "" THEN "verify_jwt_using_secret"
    ELSE "none"

Verifier(a) ==
    IF a.secret # "" THEN "verify_jwt_using_secret"
    ELSE IF a.signing_certificate # "" THEN "verify_jwt_with_claims"
    ELSE "none"

\* get(), lines 46-52: choose the verification function and decode the token
Verify ==
    /\ pc = "verify"
    /\ \E jwt \in JWTs :
         LET a == authenticator
             v == Verifier(a)
             r == IF v = "verify_jwt_using_secret"
                  THEN verify_jwt_using_secret(jwt, a.secret)
                  ELSE verify_jwt_with_claims(jwt, a.signing_certificate,
                                              a.expected_audience)
         IN  IF v = "none"
             THEN /\ RaiseHTTP(401, "verify")
                  /\ UNCHANGED <<verifier, certificate_read, claims>>
             ELSE /\ verifier' = v
                  /\ certificate_read' = (v = "verify_jwt_with_claims")
                  /\ claims' = r.claims
                  /\ IF r.ok
                     THEN /\ pc' = "check_claims"
                          /\ UNCHANGED <<exc, status, failed_at>>
                     ELSE RaiseUncaught(r.exc, "verify")
    /\ UNCHANGED <<authenticator, auth_header_content, auth_cookie_content,
                   tokenParam, token, username, login_cookie, redirect,
                   failed_claim>>

\* a claim of boolean_claims the loop of line 55 raises for
PositiveFails(c) == ~Truthy(Get(claims, c, PyBool(FALSE)))

\* a claim of boolean_negative_claims the loop of line 58 raises for
NegativeFails_AbsentPasses(c) == Truthy(Get(claims, c, PyBool(FALSE)))

NegativeFails(c) == Truthy(Get(claims, c, PyBool(TRUE)))

\* lines 55-60: a for loop raises at the first entry of its list that fails;
\* the index of that entry, 0 when the loop completes
FirstFailing_Last(list, failing) ==
    IF \E i \in 1..Len(list) : list[i] \in failing
    THEN CHOOSE i \in 1..Len(list) :
            list[i] \in failing /\ \A j \in (i + 1)..Len(list) : list[j] \notin failing
    ELSE 0

FirstFailing(list, failing) ==
    IF \E i \in 1..Len(list) : list[i] \in failing
    THEN CHOOSE i \in 1..Len(list) :
            list[i] \in failing /\ \A j \in 1..(i - 1) : list[j] \notin failing
    ELSE 0

\* get(), lines 54-60: the two loops over the configured boolean claims
CheckClaims ==
    /\ pc = "check_claims"
    /\ LET bc == authenticator.boolean_claims
           bnc == authenticator.boolean_negative_claims
           i == FirstFailing(bc, { c \in Range(bc) : PositiveFails(c) })
           j == FirstFailing(bnc, { c \in Range(bnc) : NegativeFails(c) })
       IN  IF i # 0
           THEN RaiseHTTP(401, "check_claims") /\ failed_claim' = bc[i]
           ELSE IF j # 0
           THEN RaiseHTTP(401, "check_claims") /\ failed_claim' = bnc[j]
           ELSE /\ pc' = "retrieve_username"
                /\ UNCHANGED <<exc, status, failed_at, failed_claim>>
    /\ UNCHANGED <<authenticator, auth_header_content, auth_cookie_content,
                   tokenParam, token, claims, username, verifier,
                   certificate_read, login_cookie, redirect>>

\* get(), lines 62-68: derive the username, set the login cookie, redirect
Login ==
    /\ pc = "retrieve_username"
    /\ LET field == authenticator.username_claim_field
       IN  IF field \notin DOMAIN claims
           THEN /\ RaiseUncaught("KeyError", "retrieve_username")
                /\ UNCHANGED <<username, login_cookie, redirect>>
           ELSE IF claims[field].t # "str"
           THEN /\ RaiseUncaught("AttributeError", "retrieve_username")
                /\ UNCHANGED <<username, login_cookie, redirect>>
           ELSE /\ username' = retrieve_username(claims[field].v)
                /\ login_cookie' = "set"
                /\ redirect' = authenticator.post_login_url
                /\ pc' = "done"
                /\ status' = 302
                /\ UNCHANGED <<exc, failed_at>>
    /\ UNCHANGED <<authenticator, auth_header_content, auth_cookie_content,
                   tokenParam, token, claims, verifier, certificate_read,
                   failed_claim>>

Next == Locate \/ ClearLoginCookie \/ Verify \/ CheckClaims \/ Login

Spec == Init /\ [][Next]_vars

-----------------------------------------------------------------------------
(* Username extraction on its own: the handler stands before line 62 with a  *)
(* verified claim set whose username claim is any short text                 *)

UsernameChars == {"a", "b", "-", "@"}

InitUsername ==
    /\ authenticator \in { a \in Authenticators :
                             /\ a.secret = "s3cr3t"
                             /\ a.signing_certificate = ""
                             /\ a.expected_audience = ""
                             /\ a.boolean_claims = <<>>
                             /\ a.boolean_negative_claims = <<>>
                             /\ ~a.logout_on_new_token }
    /\ pc = "retrieve_username"
    /\ auth_header_content = <<>>
    /\ auth_cookie_content = <<"c">>
    /\ tokenParam = PyBool(FALSE)
    /\ token = <<"c">>
    /\ \E v \in SeqsUpTo(UsernameChars, MaxLen) :
         claims = [k \in {"upn"} |-> PyStr(v)]
    /\ username = <<>>
    /\ verifier = "verify_jwt_using_secret"
    /\ certificate_read = FALSE
    /\ login_cookie = "existing"
    /\ redirect = ""
    /\ exc = "none"
    /\ status = 0
    /\ failed_at = "none"
    /\ failed_claim = "none"

SpecUsername == InitUsername /\ [][Login]_vars

-----------------------------------------------------------------------------
(* Properties *)

Terminal == pc \in {"failed", "done"}
Located == pc # "get" /\ ~(pc = "failed" /\ failed_at = "locate")
HeaderGiven == Len(auth_header_content) > 0
CookieGiven == Len(auth_cookie_content) > 0
ParamGiven == tokenParam.t = "str" /\ Len(tokenParam.v) > 0
DecodeAttempted == verifier # "none"
VerifyDone ==
    \/ pc \in {"check_claims", "retrieve_username", "done"}
    \/ pc = "failed" /\ failed_at \in {"verify", "check_claims", "retrieve_username"}
ClaimsChecked ==
    \/ pc \in {"retrieve_username", "done"}
    \/ pc = "failed" /\ failed_at \in {"check_claims", "retrieve_username"}
FailedWith(code, step) ==
    pc = "failed" /\ exc = "HTTPError" /\ status = code /\ failed_at = step

\* the whitespace-delimited fields of a header that starts with a word
IsSpace(h, i) == h[i] \in Whitespace
EndFrom(h, start) ==
    IF \E i \in start..Len(h) : IsSpace(h, i)
    THEN CHOOSE i \in start..Len(h) :
            IsSpace(h, i) /\ \A j \in start..(i - 1) : ~IsSpace(h, j)
    ELSE Len(h) + 1
FirstWord(h) == SubSeq(h, 1, EndFrom(h, 1) - 1)
HasSecondWord(h) == \E i \in EndFrom(h, 1)..Len(h) : ~IsSpace(h, i)
SecondStart(h) ==
    CHOOSE i \in EndFrom(h, 1)..Len(h) :
        ~IsSpace(h, i) /\ \A j \in EndFrom(h, 1)..(i - 1) : IsSpace(h, j)
SecondWord(h) == SubSeq(h, SecondStart(h), EndFrom(h, SecondStart(h)) - 1)

\* claim c is in the claim set with a truthy value
IsTrue(c) == c \in DOMAIN claims /\ Truthy(claims[c])
\* claim c is missing from the claim set or has a truthy value
MissingOrTrue(c) == c \notin DOMAIN claims \/ Truthy(claims[c])
PositivesPass == \A c \in Range(authenticator.boolean_claims) : IsTrue(c)
Lowest(S) == CHOOSE i \in S : \A j \in S : i <= j

\* C1 (as claimed): a failed decode ends the request with status 401, no login
\* cookie set and no redirect issued.
C1_DecodeFailureIs401 ==
    (pc = "failed" /\ failed_at = "verify" /\ DecodeAttempted)
        => (status = 401 /\ login_cookie # "set" /\ redirect = "")

\* C2 (as claimed): with the positive claims passing, a negative claim that is
\* present and truthy fails the request with ClaimValidationFailed (401), and
\* when every negative claim is absent or falsy the rule passes.
C2_AbsentNegativeClaimPasses ==
    (ClaimsChecked /\ PositivesPass) =>
        IF \E c \in Range(authenticator.boolean_negative_claims) : IsTrue(c)
        THEN /\ FailedWith(401, "check_claims")
             /\ failed_claim \in Range(authenticator.boolean_negative_claims)
             /\ IsTrue(failed_claim)
        ELSE ~(pc = "failed" /\ failed_at = "check_claims")

\* C2 (amended): with the positive claims passing, a negative claim that is
\* truthy or absent from the claim set fails the request with
\* ClaimValidationFailed (401) naming such a claim; the rule passes, and the
\* pipeline reaches username extraction, only when every negative claim is
\* present with a falsy value.
C2_NegativeClaimMustBePresentAndFalse ==
    (ClaimsChecked /\ PositivesPass) =>
        IF \E c \in Range(authenticator.boolean_negative_claims) : MissingOrTrue(c)
        THEN /\ FailedWith(401, "check_claims")
             /\ failed_claim \in Range(authenticator.boolean_negative_claims)
             /\ MissingOrTrue(failed_claim)
        ELSE /\ ~(pc = "failed" /\ failed_at = "check_claims")
             /\ failed_claim = "none"

C2_Witness ==
    /\ FailedWith(401, "check_claims")
    /\ PositivesPass
    /\ failed_claim \in Range(authenticator.boolean_negative_claims)
    /\ failed_claim \notin DOMAIN claims

\* C3 (as claimed): a request that ends in a 400, 401 or 403 failure has neither
\* cleared nor set the login cookie, whatever logout_on_new_token is.
C3_FailureLeavesSessionUntouched ==
    (pc = "failed" /\ status \in {400, 401, 403}) => login_cookie = "existing"

\* C3 (amended): a request that ends in a failure has set no login cookie and
\* issued no redirect; the existing login cookie has been cleared exactly when
\* a token was located and logout_on_new_token is set, and is untouched
\* otherwise.
C3_FailureSetsNoSession ==
    pc = "failed" =>
        /\ login_cookie # "set"
        /\ redirect = ""
        /\ username = <<>>
        /\ (login_cookie = "cleared")
              <=> (failed_at # "locate" /\ authenticator.logout_on_new_token)

C3_Witness ==
    /\ pc = "failed"
    /\ status = 401
    /\ authenticator.logout_on_new_token
    /\ login_cookie = "cleared"

\* C4: when the header and the query parameter are both non-empty, locating
\* fails with status 400 whatever the cookie and the scheme word are, and no
\* verification step is reached.
C4_AmbiguousCredential ==
    (pc # "get" /\ HeaderGiven /\ ParamGiven) =>
        /\ FailedWith(400, "locate")
        /\ token = <<>>
        /\ ~DecodeAttempted
        /\ claims = EmptyDict
        /\ login_cookie = "existing"

C4_Witness ==
    /\ FailedWith(400, "locate")
    /\ HeaderGiven /\ ParamGiven /\ CookieGiven
    /\ FirstWord(auth_header_content) # Bearer

\* C5: with the header given and the query parameter absent, a first word other
\* than the lowercase "bearer" fails with status 403 whatever the cookie is,
\* and after the word "bearer" the token is the second whitespace-delimited
\* field of the header.
C5_BearerScheme ==
    (pc # "get" /\ HeaderGiven /\ ~ParamGiven) =>
        /\ FirstWord(auth_header_content) # Bearer =>
              /\ FailedWith(403, "locate")
              /\ token = <<>>
              /\ ~DecodeAttempted
        /\ (FirstWord(auth_header_content) = Bearer
               /\ HasSecondWord(auth_header_content)) =>
              /\ Located
              /\ token = SecondWord(auth_header_content)

C5_Witness ==
    /\ FailedWith(403, "locate")
    /\ CookieGiven /\ ~ParamGiven
    /\ FirstWord(auth_header_content) = <<"B", "e", "a", "r", "e", "r">>

\* C6: unless header and query parameter are both given, locating yields one
\* token or fails: a header wins over cookie and parameter, without a header
\* the cookie wins over the parameter, without header and cookie the parameter
\* is the token, and with none of the three locating fails with status 401.
C6_LocatePrecedence ==
    (pc # "get" /\ ~(HeaderGiven /\ ParamGiven)) =>
        /\ Located <=> token # <<>>
        /\ HeaderGiven =>
              \/ pc = "failed" /\ failed_at = "locate" /\ status \in {403, 500}
              \/ /\ Located
                 /\ HasSecondWord(auth_header_content)
                 /\ token = SecondWord(auth_header_content)
        /\ (~HeaderGiven /\ CookieGiven) =>
              Located /\ token = auth_cookie_content
        /\ (~HeaderGiven /\ ~CookieGiven /\ ParamGiven) =>
              Located /\ token = tokenParam.v
        /\ (~HeaderGiven /\ ~CookieGiven /\ ~ParamGiven) =>
              FailedWith(401, "locate")

C6_Witness ==
    /\ Located
    /\ ~HeaderGiven /\ CookieGiven /\ ParamGiven
    /\ token = auth_cookie_content
    /\ token # tokenParam.v

\* C7: a non-empty secret selects secret-based verification and the
\* certificate is never read, even when one is configured; an empty secret with
\* a certificate path selects certificate-based verification; with neither the
\* request fails with status 401 and no token is decoded.
C7_VerificationMode ==
    /\ authenticator.secret # "" => ~certificate_read
    /\ VerifyDone =>
         /\ authenticator.secret # "" =>
               verifier = "verify_jwt_using_secret"
         /\ (authenticator.secret = "" /\ authenticator.signing_certificate # "") =>
               verifier = "verify_jwt_with_claims" /\ certificate_read
         /\ (authenticator.secret = "" /\ authenticator.signing_certificate = "") =>
               /\ FailedWith(401, "verify")
               /\ ~DecodeAttempted
               /\ claims = EmptyDict

C7_Witness ==
    /\ pc = "check_claims"
    /\ authenticator.secret # ""
    /\ authenticator.signing_certificate # ""
    /\ verifier = "verify_jwt_using_secret"

\* what the claim policy demands of a checked request, given the names that
\* count as violating negative claims
ClaimPolicy(violating) ==
    LET bc == authenticator.boolean_claims
        bnc == authenticator.boolean_negative_claims
        P == { i \in 1..Len(bc) : ~IsTrue(bc[i]) }
        N == { i \in 1..Len(bnc) : bnc[i] \in violating }
    IN  /\ failed_claim # "none" => (DecodeAttempted /\ failed_at = "check_claims")
        /\ ClaimsChecked =>
             IF P # {}
             THEN /\ FailedWith(401, "check_claims")
                  /\ failed_claim = bc[Lowest(P)]
                  /\ username = <<>> /\ login_cookie # "set"
             ELSE IF N # {}
             THEN /\ FailedWith(401, "check_claims")
                  /\ failed_claim = bnc[Lowest(N)]
                  /\ username = <<>> /\ login_cookie # "set"
             ELSE failed_claim = "none" /\ failed_at # "check_claims"

\* C8 (as claimed): after a successful decode the request fails with
\* ClaimValidationFailed naming the first absent or falsy name of
\* boolean_claims, else the first name of boolean_negative_claims that is
\* present and truthy, and otherwise the claim policy passes.
C8_FailFastTruthyNegatives ==
    ClaimPolicy({ c \in ClaimNames : IsTrue(c) })

\* C8 (amended): after a successful decode the request fails with
\* ClaimValidationFailed naming the first absent or falsy name of
\* boolean_claims, else the first name of boolean_negative_claims that is
\* absent or truthy; no later claim is evaluated and username extraction is not
\* reached after a violation.
C8_FailFastInListOrder ==
    ClaimPolicy({ c \in ClaimNames : MissingOrTrue(c) })

C8_Witness ==
    /\ FailedWith(401, "check_claims")
    /\ Len(authenticator.boolean_claims) >= 1
    /\ Len(authenticator.boolean_negative_claims) >= 1
    /\ ~IsTrue(authenticator.boolean_claims[1])
    /\ IsTrue(authenticator.boolean_negative_claims[1])
    /\ failed_claim = authenticator.boolean_claims[1]
    /\ failed_claim # authenticator.boolean_negative_claims[1]

\* C9: for a string username claim the username is the claim with every hyphen
\* removed, cut before the first "@" if one remains; it holds no hyphen and no
\* "@", and extracting again from the result changes nothing.
C9_UsernameNormalised ==
    pc = "done" =>
        LET v == claims[authenticator.username_claim_field].v
            NotHyphen(ch) == ch # "-"
            stripped == SelectSeq(v, NotHyphen)
            ats == { i \in 1..Len(stripped) : stripped[i] = "@" }
            expected == IF ats = {} THEN stripped
                        ELSE SubSeq(stripped, 1, Lowest(ats) - 1)
        IN  /\ username = expected
            /\ \A i \in 1..Len(username) : username[i] \notin {"-", "@"}
            /\ retrieve_username(username) = username

C9_Witness ==
    /\ pc = "done"
    /\ Contains(claims[authenticator.username_claim_field].v, "-")
    /\ Contains(claims[authenticator.username_claim_field].v, "@")
    /\ username # <<>>
    /\ username # claims[authenticator.username_claim_field].v

\* C10 (as claimed): every request ends either in success, with the login
\* cookie set and a redirect issued, or in a failure with status 400, 401 or
\* 403 raised by the handler, and the login cookie is set only on success.
C10_OneTerminalStateOfTheTaxonomy ==
    /\ login_cookie = "set" => pc = "done"
    /\ Terminal =>
         \/ pc = "done" /\ login_cookie = "set" /\ redirect # "" /\ exc = "none"
         \/ pc = "failed" /\ exc = "HTTPError" /\ status \in {400, 401, 403}


====
